---------------------------- MODULE Spec2Model ----------------------------
(***************************************************************************)
(* Water-quality backend: the session / batch service of src/src/index.ts  *)
(* (the BATCH_SIZE variant, lines 225-479) and the command dispatcher that *)
(* spec.md section 4.3 describes.                                          *)
(*                                                                         *)
(* Every Express handler is synchronous, so one request is one atomic      *)
(* step.  pH and turbidity are carried in hundredths (6.5 is 650), tds in  *)
(* whole ppm.  Date.now() is the token "now"; the timestamp of a stored    *)
(* reading is not modelled.                                                *)
(***************************************************************************)
EXTENDS Integers, Sequences, FiniteSets

VARIABLES
    sessionReadings,  \* index.ts:262  SensorReading[]
    session,          \* index.ts:264  {active, completed, startedAt}
    tankLevels,       \* index.ts:270  {tankA, tankB, updatedAt}
    res,              \* the response of the last request
    phase,            \* spec.md section 3  Phase
    lastPrediction,   \* spec.md section 3  PredictionResult | none
    pendingCommand,   \* spec.md section 3  PendingCommand
    history,          \* what happened since the last startSession / queueCommand
    inflight          \* the requests received whose handler has not finished

vars == <<sessionReadings, session, tankLevels, res, phase, lastPrediction,
          pendingCommand, history, inflight>>

codeVars == <<sessionReadings, session, tankLevels>>

-----------------------------------------------------------------------------
(* Configuration and bounds *)

BATCH_SIZE == 10

\* ingest stops being offered once the batch holds this many readings
MaxReadings == 11

\* the requests that can be in flight together
MaxInflight == 2

-----------------------------------------------------------------------------
(* JSON values of a request body: typeof v is v.type *)

Num(n) == [type |-> "number", val |-> n]

Str == [type |-> "string", val |-> 0]

Undefined == [type |-> "undefined", val |-> 0]

IsNumber(v) == v.type = "number"

\* the bodies POST /ingest is called with
IngestBodies ==
    { [ph |-> Num(700), turbidity |-> Num(500),  tds |-> Num(300)],
      [ph |-> Num(500), turbidity |-> Num(1500), tds |-> Num(1200)],
      [ph |-> Str,      turbidity |-> Num(500),  tds |-> Num(300)],
      [ph |-> Num(700), turbidity |-> Num(500),  tds |-> Undefined] }

DispatchIngestBodies ==
    { [ph |-> Num(700), turbidity |-> Num(500),  tds |-> Num(300)],
      [ph |-> Str,      turbidity |-> Num(500),  tds |-> Num(300)],
      [ph |-> Num(700), turbidity |-> Str,       tds |-> Num(300)],
      [ph |-> Num(700), turbidity |-> Num(500),  tds |-> Undefined] }

\* the bodies POST /tank-levels/ingest is called with
TankBodies ==
    { [tankA |-> Num(0),   tankB |-> Num(100)],
      [tankA |-> Num(100), tankB |-> Num(50)],
      [tankA |-> Num(-1),  tankB |-> Num(50)],
      [tankA |-> Num(50),  tankB |-> Num(101)],
      [tankA |-> Str,      tankB |-> Num(50)] }

(* Requests in flight: Express receives a request and parses its body before the
   handler is called, so several requests can be waiting; op and body are the
   request, pc is where its handler stands, stores is what the handler's test of
   the session flags gave, overtaken tells that another request's handler
   finished while this one was waiting *)

Slots == 1..MaxInflight

NoBody == [ph |-> Undefined, turbidity |-> Undefined, tds |-> Undefined]

NoRequest ==
    [op |-> "none", body |-> NoBody, pc |-> "idle", stores |-> FALSE,
     overtaken |-> FALSE]

ConcurrentRequests ==
    { [op |-> "ingest", body |-> b] :
        b \in { [ph |-> Num(700), turbidity |-> Num(500), tds |-> Num(300)],
                [ph |-> Str,      turbidity |-> Num(500), tds |-> Num(300)] } }
    \cup { [op |-> o, body |-> NoBody] :
             o \in {"session/start", "session/reset", "analyze-water"} }

-----------------------------------------------------------------------------
(* Helpers *)

RECURSIVE SumField(_, _)
SumField(readings, f) ==
    IF readings = <<>> THEN 0
    ELSE Head(readings)[f] + SumField(Tail(readings), f)

\* n / d rounded to the nearest integer, halves up (Math.round; toFixed(2) on
\* a value carried in hundredths, taken as an exact decimal), for n >= 0, d > 0
RoundDiv_Truncates(n, d) == n \div d

RoundDiv(n, d) == (2 * n + d) \div (2 * d)

computeAverage(readings) ==
    [ph        |-> RoundDiv(SumField(readings, "ph"), Len(readings)),
     turbidity |-> RoundDiv(SumField(readings, "turbidity"), Len(readings)),
     tds       |-> RoundDiv(SumField(readings, "tds"), Len(readings))]

isReusable_IgnoresPh(ph, turbidity, tds) ==
    IF turbidity > 1000 THEN FALSE
    ELSE IF tds > 1000 THEN FALSE
    ELSE TRUE

isReusable(ph, turbidity, tds) ==
    IF ph < 650 \/ ph > 850 THEN FALSE
    ELSE IF turbidity > 1000 THEN FALSE
    ELSE IF tds > 1000 THEN FALSE
    ELSE TRUE

filtrationBracket_StrictF4(turbidity, tds) ==
    IF tds > 1500 THEN "F5"
    ELSE IF tds > 1000 THEN "F4"
    ELSE IF turbidity > 3000 THEN "F3"
    ELSE IF turbidity > 1000 THEN "F2"
    ELSE "F1"

filtrationBracket(turbidity, tds) ==
    IF tds > 1500 THEN "F5"
    ELSE IF tds >= 1000 THEN "F4"
    ELSE IF turbidity > 3000 THEN "F3"
    ELSE IF turbidity > 1000 THEN "F2"
    ELSE "F1"

\* the body POST /analyze-water answers with
Decision(readings) ==
    LET avg == computeAverage(readings) IN
    IF isReusable(avg.ph, avg.turbidity, avg.tds)
    THEN [reusable |-> "YES", tank |-> "Tank A", filtrationBracket |-> "F1",
          average |-> avg, pumpCommand |-> "PUMP_A_ON"]
    ELSE [reusable |-> "NO", tank |-> "Tank B",
          filtrationBracket |-> filtrationBracket(avg.turbidity, avg.tds),
          average |-> avg, pumpCommand |-> "PUMP_B_ON"]

-----------------------------------------------------------------------------
(* The dispatcher's data, spec.md sections 3 and 4.3 *)

Phases == {"IDLE", "COLLECTING", "ANALYZED", "TRANSFERRING_MAIN",
           "POST_FILTRATION", "COMPLETE"}

Commands == {"START_PUMP_A", "START_PUMP_B", "START_PUMP_C", "STOP_ALL"}

\* what POST /pump/command is called with
CommandBodies == Commands \cup {"OPEN_VALVE"}

NoCommand == [command |-> "none", delivered |-> FALSE]

NoPrediction == [bracket |-> "none"]

\* the history: the successful analyses since the last startSession, the command
\* last queued, the fetch calls and the hand-outs since (all counted to 2), and
\* whether the pending command was cleared since
EmptyLog ==
    [analyses |-> 0, queued |-> "none", fetches |-> 0, handedOut |-> 0,
     cleared |-> FALSE]

Bump(n) == IF n < 2 THEN n + 1 ELSE n

-----------------------------------------------------------------------------

Init ==
    /\ sessionReadings = <<>>
    /\ session = [active |-> FALSE, completed |-> FALSE, startedAt |-> "null"]
    /\ tankLevels = [tankA |-> 0, tankB |-> 0, updatedAt |-> "null"]
    /\ res = [op |-> "boot", code |-> 0, body |-> [status |-> "none"]]
    /\ phase = "IDLE"
    /\ lastPrediction = NoPrediction
    /\ pendingCommand = NoCommand
    /\ history = EmptyLog
    /\ inflight = [i \in Slots |-> NoRequest]

-----------------------------------------------------------------------------
(* Session/Phase Controller: what spec.md section 4.1 adds to the handlers of
   index.ts, which keep no phase, prediction or pending command *)

PhaseOnStart ==
    /\ phase' = "COLLECTING"
    /\ lastPrediction' = NoPrediction
    /\ pendingCommand' = NoCommand
    /\ history' = [history EXCEPT !.cleared = TRUE, !.analyses = 0]

PhaseOnReset ==
    /\ phase' = "IDLE"
    /\ lastPrediction' = NoPrediction
    /\ pendingCommand' = NoCommand
    /\ history' = [history EXCEPT !.cleared = TRUE]

PhaseOnAnalyzed(decision) ==
    /\ phase' = "ANALYZED"
    /\ lastPrediction' = decision
    /\ history' = [history EXCEPT !.analyses = Bump(@)]
    /\ UNCHANGED pendingCommand

PhaseUnchanged == UNCHANGED <<phase, lastPrediction, pendingCommand, history>>

-----------------------------------------------------------------------------
(* Handlers of index.ts *)

Reply(op, code, body) == res' = [op |-> op, code |-> code, body |-> body]

\* POST /ingest
IngestValid_SkipsTds(body) == IsNumber(body.ph) /\ IsNumber(body.turbidity)

IngestValid(body) ==
    IsNumber(body.ph) /\ IsNumber(body.turbidity) /\ IsNumber(body.tds)

IngestStores_NoActiveCheck == ~session.completed

IngestStores_Always == TRUE

IngestStores == session.active /\ ~session.completed

\* the push and the answer of a well-typed reading, stores being the outcome of
\* the test of the session flags
IngestPush(body, stores) ==
    /\ stores => Len(sessionReadings) < MaxReadings
    /\ sessionReadings' =
           IF stores
           THEN Append(sessionReadings,
                       [ph |-> body.ph.val, turbidity |-> body.turbidity.val,
                        tds |-> body.tds.val])
           ELSE sessionReadings
    /\ Reply("ingest", 200,
             [status |-> "received", sessionActive |-> session.active,
              sessionCount |-> Len(sessionReadings')])
    /\ UNCHANGED <<session, tankLevels>>
    /\ PhaseUnchanged

Ingest(body) ==
    IF ~IngestValid(body)
    THEN /\ Reply("ingest", 400, [error |-> "Invalid sensor data"])
         /\ UNCHANGED codeVars
         /\ PhaseUnchanged
    ELSE IngestPush(body, IngestStores)

\* POST /session/start
SessionStart_KeepsReadings ==
    /\ session' = [active |-> TRUE, completed |-> FALSE, startedAt |-> "now"]
    /\ UNCHANGED sessionReadings
    /\ Reply("session/start", 200,
             [status |-> "session_started", batchSize |-> BATCH_SIZE])
    /\ UNCHANGED tankLevels
    /\ PhaseOnStart

SessionStart ==
    /\ session' = [active |-> TRUE, completed |-> FALSE, startedAt |-> "now"]
    /\ sessionReadings' = <<>>
    /\ Reply("session/start", 200,
             [status |-> "session_started", batchSize |-> BATCH_SIZE])
    /\ UNCHANGED tankLevels
    /\ PhaseOnStart

\* POST /session/reset
SessionReset_KeepsCompleted ==
    /\ session' = [session EXCEPT !.active = FALSE, !.startedAt = "null"]
    /\ sessionReadings' = <<>>
    /\ Reply("session/reset", 200, [status |-> "session_reset"])
    /\ UNCHANGED tankLevels
    /\ PhaseOnReset

SessionReset_KeepsReadings ==
    /\ session' = [active |-> FALSE, completed |-> FALSE, startedAt |-> "null"]
    /\ UNCHANGED sessionReadings
    /\ Reply("session/reset", 200, [status |-> "session_reset"])
    /\ UNCHANGED tankLevels
    /\ PhaseOnReset

SessionReset ==
    /\ session' = [active |-> FALSE, completed |-> FALSE, startedAt |-> "null"]
    /\ sessionReadings' = <<>>
    /\ Reply("session/reset", 200, [status |-> "session_reset"])
    /\ UNCHANGED tankLevels
    /\ PhaseOnReset

\* GET /session/status
SessionStatus ==
    /\ Reply("session/status", 200,
             [active |-> session.active, completed |-> session.completed,
              collected |-> Len(sessionReadings)])
    /\ UNCHANGED codeVars
    /\ PhaseUnchanged

\* POST /analyze-water
SessionNotStarted_OnlyCompleted == session.completed

SessionNotStarted == ~session.active

InsufficientData == Len(sessionReadings) < BATCH_SIZE

AnalyzeCompletes_KeepsActive == session' = [session EXCEPT !.completed = TRUE]

AnalyzeCompletes_KeepsCollecting == session' = [session EXCEPT !.active = FALSE]

AnalyzeCompletes ==
    session' = [session EXCEPT !.completed = TRUE, !.active = FALSE]

AnalyzeWater ==
    IF SessionNotStarted
    THEN /\ Reply("analyze-water", 400, [error |-> "Session not started"])
         /\ UNCHANGED codeVars
         /\ PhaseUnchanged
    ELSE IF InsufficientData
    THEN /\ Reply("analyze-water", 400,
                  [error |-> "Insufficient data", required |-> BATCH_SIZE,
                   current |-> Len(sessionReadings)])
         /\ UNCHANGED codeVars
         /\ PhaseUnchanged
    ELSE /\ AnalyzeCompletes
         /\ Reply("analyze-water", 200, Decision(sessionReadings))
         /\ UNCHANGED <<sessionReadings, tankLevels>>
         /\ PhaseOnAnalyzed(Decision(sessionReadings))

\* POST /tank-levels/ingest
TankLevelsValid_NoUpperLimit(body) ==
    /\ IsNumber(body.tankA)
    /\ IsNumber(body.tankB)
    /\ ~(body.tankA.val < 0)
    /\ ~(body.tankB.val < 0)

TankLevelsValid(body) ==
    /\ IsNumber(body.tankA)
    /\ IsNumber(body.tankB)
    /\ ~(body.tankA.val < 0 \/ body.tankA.val > 100)
    /\ ~(body.tankB.val < 0 \/ body.tankB.val > 100)

TankLevelsIngest(body) ==
    /\ IF ~TankLevelsValid(body)
       THEN /\ Reply("tank-levels/ingest", 400, [error |-> "Invalid tank levels"])
            /\ UNCHANGED tankLevels
       ELSE /\ tankLevels' = [tankA |-> body.tankA.val, tankB |-> body.tankB.val,
                              updatedAt |-> "now"]
            /\ Reply("tank-levels/ingest", 200, [status |-> "tank_levels_updated"])
    /\ UNCHANGED <<sessionReadings, session>>
    /\ PhaseUnchanged

-----------------------------------------------------------------------------
(* Command Dispatcher, spec.md section 4.3 *)

PhaseAfter(cmd) ==
    CASE cmd \in {"START_PUMP_A", "START_PUMP_B"} -> "TRANSFERRING_MAIN"
      [] cmd = "START_PUMP_C" -> "POST_FILTRATION"
      [] OTHER -> "IDLE"

\* POST /pump/command
QueueAllowed_AnyPhase(cmd) == TRUE

QueueAllowed(cmd) == cmd = "STOP_ALL" \/ phase = "ANALYZED"

queueCommand(cmd) ==
    /\ UNCHANGED <<codeVars, lastPrediction>>
    /\ IF cmd \notin Commands
       THEN /\ Reply("pump/command", 400, [error |-> "InvalidCommand", command |-> cmd])
            /\ UNCHANGED <<phase, pendingCommand, history>>
       ELSE IF ~QueueAllowed(cmd)
       THEN /\ Reply("pump/command", 400, [error |-> "InvalidPhase", command |-> cmd])
            /\ UNCHANGED <<phase, pendingCommand, history>>
       ELSE /\ pendingCommand' = [command |-> cmd, delivered |-> FALSE]
            /\ phase' = PhaseAfter(cmd)
            /\ history' = [history EXCEPT !.queued = cmd, !.fetches = 0,
                                          !.handedOut = 0, !.cleared = FALSE]
            /\ Reply("pump/command", 200, [status |-> "queued", command |-> cmd])

\* GET /pump/command
NothingToFetch_IgnoresDelivered == pendingCommand.command = "none"

NothingToFetch == pendingCommand.command = "none" \/ pendingCommand.delivered

fetchCommand ==
    /\ UNCHANGED <<codeVars, phase, lastPrediction>>
    /\ IF NothingToFetch
       THEN /\ Reply("pump/fetch", 200, [command |-> "null"])
            /\ UNCHANGED pendingCommand
            /\ history' = [history EXCEPT !.fetches = Bump(@)]
       ELSE /\ Reply("pump/fetch", 200, [command |-> pendingCommand.command])
            /\ pendingCommand' = [pendingCommand EXCEPT !.delivered = TRUE]
            /\ history' = [history EXCEPT !.fetches = Bump(@),
                                                !.handedOut = Bump(@)]

\* POST /pump/ack
acknowledgeCommand_OnlyIfPending ==
    /\ UNCHANGED <<codeVars, lastPrediction>>
    /\ pendingCommand' = NoCommand
    /\ phase' = IF pendingCommand.command = "none" THEN phase ELSE "IDLE"
    /\ history' = [history EXCEPT !.cleared = TRUE]
    /\ Reply("pump/ack", 200, [status |-> "acknowledged"])

acknowledgeCommand_ToComplete ==
    /\ UNCHANGED <<codeVars, lastPrediction>>
    /\ pendingCommand' = NoCommand
    /\ phase' = IF pendingCommand.command = "none" THEN "IDLE" ELSE "COMPLETE"
    /\ history' = [history EXCEPT !.cleared = TRUE]
    /\ Reply("pump/ack", 200, [status |-> "acknowledged"])

acknowledgeCommand ==
    /\ UNCHANGED <<codeVars, lastPrediction>>
    /\ pendingCommand' = NoCommand
    /\ phase' = "IDLE"
    /\ history' = [history EXCEPT !.cleared = TRUE]
    /\ Reply("pump/ack", 200, [status |-> "acknowledged"])

-----------------------------------------------------------------------------

\* one request at a time: none is waiting while a handler runs
Sequential == UNCHANGED inflight

Next ==
    \/ \E body \in IngestBodies : Ingest(body) /\ Sequential
    \/ SessionStart /\ Sequential
    \/ SessionReset /\ Sequential
    \/ SessionStatus /\ Sequential
    \/ AnalyzeWater /\ Sequential
    \/ \E body \in TankBodies : TankLevelsIngest(body) /\ Sequential

Spec == Init /\ [][Next]_vars

\* the controller and the dispatcher together; the reading values play no part in
\* the dispatcher, so one well-typed and one ill-typed body are sent
DispatchNext ==
    \/ \E body \in DispatchIngestBodies : Ingest(body) /\ Sequential
    \/ SessionStart /\ Sequential
    \/ SessionReset /\ Sequential
    \/ AnalyzeWater /\ Sequential
    \/ \E cmd \in CommandBodies : queueCommand(cmd) /\ Sequential
    \/ fetchCommand /\ Sequential
    \/ acknowledgeCommand /\ Sequential

DispatchSpec == Init /\ [][DispatchNext]_vars

-----------------------------------------------------------------------------
(* Properties of the session controller *)

IsPrefix(s, t) == Len(s) <= Len(t) /\ SubSeq(t, 1, Len(s)) = s

StoredReadings ==
    { [ph |-> b.ph.val, turbidity |-> b.turbidity.val, tds |-> b.tds.val] :
        b \in { c \in IngestBodies : IngestValid(c) } }

Ingested == res.op = "ingest" /\ res.code = 200

AnalyzeOk == res.op = "analyze-water" /\ res.code = 200

AnalyzeFailed == res.op = "analyze-water" /\ res.code = 400

\* C1: in every reachable state the session batch holds at most BATCH_SIZE
\* readings (an ingest that finds the batch full does not append).
C1_BatchWithinCapacity == Len(sessionReadings) <= BATCH_SIZE

\* C2: a well-typed reading is appended to the batch if and only if the phase is
\* COLLECTING when the ingest call arrives: in COLLECTING exactly that one reading
\* is added at the end, in every other phase the batch is left as it was.
C2_AppendIffCollecting ==
    [][Ingested' =>
         IF phase = "COLLECTING"
         THEN /\ Len(sessionReadings') = Len(sessionReadings) + 1
              /\ IsPrefix(sessionReadings, sessionReadings')
              /\ sessionReadings'[Len(sessionReadings')] \in StoredReadings
         ELSE sessionReadings' = sessionReadings]_vars

\* C2 witness: an ingest was answered after the analysis, with the full batch of
\* the collecting phase still in place.
C2_Witness ==
    /\ Ingested
    /\ phase = "ANALYZED"
    /\ Len(sessionReadings) >= BATCH_SIZE

\* C3: analyze succeeds at most once per started session: once it has succeeded,
\* every further analyze call fails with "Session not started" (InvalidPhase) and
\* produces no decision, until the next startSession.
C3_AnalyzeOncePerSession ==
    /\ [](history.analyses <= 1)
    /\ [][(res'.op = "analyze-water" /\ history.analyses >= 1) =>
            /\ res'.code = 400
            /\ res'.body.error = "Session not started"
            /\ lastPrediction' = lastPrediction]_vars

\* C3 witness: a further analyze call was refused after a successful one.
C3_Witness ==
    /\ AnalyzeFailed
    /\ history.analyses = 1
    /\ phase = "ANALYZED"

\* C4: analyze fails with InvalidPhase ("Session not started") when the phase is
\* not COLLECTING, and with InsufficientData (required = BATCH_SIZE, current =
\* batch length) when the phase is COLLECTING and the batch is short; both
\* failures leave the session flags, the phase and the batch unchanged.
C4_AnalyzeFailures ==
    [][res'.op = "analyze-water" =>
         /\ phase # "COLLECTING" =>
               /\ res'.code = 400
               /\ res'.body.error = "Session not started"
               /\ UNCHANGED <<session, phase, sessionReadings>>
         /\ (phase = "COLLECTING" /\ Len(sessionReadings) < BATCH_SIZE) =>
               /\ res'.code = 400
               /\ res'.body.error = "Insufficient data"
               /\ res'.body.required = BATCH_SIZE
               /\ res'.body.current = Len(sessionReadings)
               /\ UNCHANGED <<session, phase, sessionReadings>>]_vars

\* C4 witness: analyze was refused for insufficient data on a batch that is
\* neither empty nor full.
C4_Witness ==
    /\ AnalyzeFailed
    /\ res.body.error = "Insufficient data"
    /\ res.body.current > 0
    /\ phase = "COLLECTING"

-----------------------------------------------------------------------------
(* Properties of the command dispatcher *)

Fetched == res.op = "pump/fetch"

\* C6 as stated: the first fetchCommand after a queueCommand returns the queued
\* command, and every later fetchCommand returns none until the next queueCommand.
C6_FirstFetchReturnsQueued ==
    /\ (Fetched /\ history.queued # "none" /\ history.fetches = 1) =>
          res.body.command = history.queued
    /\ (Fetched /\ history.fetches = 2) => res.body.command = "null"

\* C6 amended: a queued command is handed out at most once; the first
\* fetchCommand after a queueCommand returns that command unless an
\* acknowledgeCommand, startSession or resetSession cleared it in between, and
\* every later fetchCommand returns none until the next queueCommand.
C6_AtMostOnceDelivery ==
    /\ history.handedOut <= 1
    /\ (Fetched /\ history.queued # "none" /\ history.fetches = 1
          /\ ~history.cleared) =>
          (res.body.command = history.queued /\ history.handedOut = 1)
    /\ (Fetched /\ history.fetches = 2) => res.body.command = "null"

\* C6 witness: a second fetch after the hand-out of a queued command got none.
C6_Witness ==
    /\ Fetched
    /\ history.fetches = 2
    /\ history.handedOut = 1
    /\ history.queued = "START_PUMP_A"
    /\ ~history.cleared

\* C7: queueCommand of START_PUMP_A, _B or _C succeeds only in phase ANALYZED,
\* moving the phase to TRANSFERRING_MAIN (A, B) or POST_FILTRATION (C), and fails
\* with InvalidPhase in every other phase leaving the state as it was;
\* queueCommand(STOP_ALL) succeeds from every phase and sets the phase to IDLE.
C7_QueueCommandPhases ==
    [][res'.op = "pump/command" =>
         LET cmd == res'.body.command IN
         /\ cmd \in {"START_PUMP_A", "START_PUMP_B", "START_PUMP_C"} =>
               IF phase = "ANALYZED"
               THEN /\ res'.code = 200
                    /\ pendingCommand' = [command |-> cmd, delivered |-> FALSE]
                    /\ phase' = IF cmd = "START_PUMP_C" THEN "POST_FILTRATION"
                                ELSE "TRANSFERRING_MAIN"
               ELSE /\ res'.code = 400
                    /\ res'.body.error = "InvalidPhase"
                    /\ UNCHANGED <<codeVars, phase, lastPrediction, pendingCommand>>
         /\ cmd = "STOP_ALL" =>
               /\ res'.code = 200
               /\ pendingCommand' = [command |-> cmd, delivered |-> FALSE]
               /\ phase' = "IDLE"]_vars

\* C7 witness: START_PUMP_C was accepted after an analysis and moved the phase
\* to POST_FILTRATION.
C7_Witness ==
    /\ res.op = "pump/command"
    /\ res.code = 200
    /\ res.body.command = "START_PUMP_C"
    /\ session.completed
    /\ phase = "POST_FILTRATION"

\* C8: acknowledgeCommand can be called in every reachable state and leaves the
\* phase at IDLE and the pending command empty, also when none was pending.
C8_AcknowledgeResets ==
    /\ ENABLED acknowledgeCommand
    /\ res.op = "pump/ack" => (phase = "IDLE" /\ pendingCommand = NoCommand)

\* C8 witness: an acknowledgement arrived in a started session in which no
\* command was ever queued.
C8_Witness ==
    /\ res.op = "pump/ack"
    /\ history.queued = "none"
    /\ session.active

\* C9: startSession succeeds from every state and leaves the batch empty, active
\* = true, completed = false, phase = COLLECTING, no prediction and no pending
\* command (the readings of an unfinished session are discarded).
C9_StartSession ==
    /\ ENABLED SessionStart
    /\ res.op = "session/start" =>
          /\ res.code = 200
          /\ sessionReadings = <<>>
          /\ session.active
          /\ ~session.completed
          /\ phase = "COLLECTING"
          /\ lastPrediction = NoPrediction
          /\ pendingCommand = NoCommand

\* C9 witness: a session was started after a command had been queued in an
\* earlier one.
C9_Witness ==
    /\ res.op = "session/start"
    /\ history.queued \in {"START_PUMP_A", "START_PUMP_B", "START_PUMP_C"}

\* C10: resetSession succeeds from every reachable state and leaves phase = IDLE,
\* active = false, completed = false, the batch empty, no prediction and no
\* pending command; so IDLE is one step away from every state.
C10_ResetSession ==
    /\ ENABLED (SessionReset /\ phase' = "IDLE")
    /\ res.op = "session/reset" =>
          /\ res.code = 200
          /\ phase = "IDLE"
          /\ ~session.active
          /\ ~session.completed
          /\ sessionReadings = <<>>
          /\ lastPrediction = NoPrediction
          /\ pendingCommand = NoCommand

\* C10 witness: a reset arrived after a command had been queued.
C10_Witness ==
    /\ res.op = "session/reset"
    /\ history.queued \in {"START_PUMP_A", "START_PUMP_B", "START_PUMP_C"}

-----------------------------------------------------------------------------
(* filtrationBracket on its own: the averages it is called with are drawn from
   values on and around its thresholds (turbidity in hundredths of an NTU) *)

ProbeTurbidity == {0, 500, 1000, 1001, 1500, 3000, 3001, 5000}

ProbeTds == {0, 300, 999, 1000, 1001, 1200, 1500, 1501, 2000}

ClassifyInit ==
    /\ sessionReadings = <<>>
    /\ session = [active |-> FALSE, completed |-> FALSE, startedAt |-> "null"]
    /\ tankLevels = [tankA |-> 0, tankB |-> 0, updatedAt |-> "null"]
    /\ \E t \in ProbeTurbidity, d \in ProbeTds :
          res = [op |-> "filtrationBracket", code |-> 0,
                 body |-> [turbidity |-> t, tds |-> d]]
    /\ phase = "IDLE"
    /\ lastPrediction = NoPrediction
    /\ pendingCommand = NoCommand
    /\ history = EmptyLog
    /\ inflight = [i \in Slots |-> NoRequest]

ClassifyNext ==
    /\ res.op = "filtrationBracket"
    /\ res.code = 0
    /\ res' = [op |-> "filtrationBracket", code |-> 200,
               body |-> [turbidity |-> res.body.turbidity, tds |-> res.body.tds,
                         bracket |-> filtrationBracket(res.body.turbidity,
                                                       res.body.tds)]]
    /\ UNCHANGED <<codeVars, phase, lastPrediction, pendingCommand, history>>
    /\ Sequential

ClassifySpec == ClassifyInit /\ [][ClassifyNext]_vars

Classified == res.op = "filtrationBracket" /\ res.code = 200

\* C11: for every (turbidity, tds) pair classify returns exactly one bracket, the
\* first match of: tds > 1500 F5, tds >= 1000 F4, turbidity > 30 F3, turbidity >
\* 10 F2, else F1; tds = 1000 and tds = 1500 both give F4.
C11_ClassifyOrderedRules ==
    Classified =>
        LET t == res.body.turbidity
            d == res.body.tds
            b == res.body.bracket
        IN  /\ b \in {"F1", "F2", "F3", "F4", "F5"}
            /\ (b = "F5") <=> (d > 1500)
            /\ (b = "F4") <=> (d >= 1000 /\ d <= 1500)
            /\ (b = "F3") <=> (d < 1000 /\ t > 3000)
            /\ (b = "F2") <=> (d < 1000 /\ t > 1000 /\ t <= 3000)
            /\ (b = "F1") <=> (d < 1000 /\ t <= 1000)
            /\ d \in {1000, 1500} => b = "F4"

\* C11 witness: tds = 1000 with a turbidity above every turbidity threshold was
\* classified F4.
C11_Witness ==
    /\ Classified
    /\ res.body.tds = 1000
    /\ res.body.turbidity = 5000
    /\ res.body.bracket = "F4"

-----------------------------------------------------------------------------
(* Properties of the decision *)

\* C12 as stated: the decision of analyze is reusable exactly when its bracket is
\* F1 or F2, and suggests tank A exactly when it is reusable.
C12_ReusableIffF1OrF2 ==
    AnalyzeOk =>
        /\ (res.body.reusable = "YES") <=>
              (res.body.filtrationBracket \in {"F1", "F2"})
        /\ (res.body.tank = "Tank A") <=> (res.body.reusable = "YES")

\* C12 amended: the decision is reusable exactly when the average pH is within
\* 6.5..8.5, the average turbidity at most 10 and the average tds at most 1000; a
\* reusable decision carries bracket F1, a decision with bracket F3, F4 or F5 is
\* not reusable, and tank A is suggested exactly when the decision is reusable
\* (tank B otherwise).  pH 7, turbidity 5, tds 300 gives F1, reusable, tank A;
\* turbidity 15, tds 1200 gives F4, not reusable, tank B.
C12_ReusableByLimits ==
    AnalyzeOk =>
        LET a == res.body.average
            reusable == res.body.reusable = "YES"
        IN  /\ res.body.reusable \in {"YES", "NO"}
            /\ reusable <=> /\ a.ph >= 650
                            /\ a.ph <= 850
                            /\ a.turbidity <= 1000
                            /\ a.tds <= 1000
            /\ reusable => res.body.filtrationBracket = "F1"
            /\ res.body.filtrationBracket \in {"F3", "F4", "F5"} => ~reusable
            /\ res.body.tank = IF reusable THEN "Tank A" ELSE "Tank B"
            /\ (a.ph = 700 /\ a.turbidity = 500 /\ a.tds = 300) =>
                  (res.body.filtrationBracket = "F1" /\ reusable)
            /\ (a.turbidity = 1500 /\ a.tds = 1200) =>
                  (res.body.filtrationBracket = "F4" /\ ~reusable)

\* C12 witness: a batch whose average pH is below 6.5 was decided not reusable
\* with bracket F2.
C12_Witness ==
    /\ AnalyzeOk
    /\ res.body.reusable = "NO"
    /\ res.body.filtrationBracket = "F2"
    /\ res.body.average.ph < 650

-----------------------------------------------------------------------------
(* analyze on full batches: a started session that has stored BATCH_SIZE readings,
   the first 3 or 5 of one value and the rest of another, with values on and next
   to the limits of isReusable and filtrationBracket *)

ProbeReadings ==
    [ph : {500, 700, 701}, turbidity : {500, 501, 1500},
     tds : {300, 999, 1000, 1001}]

ProbeSplits == {3, 5}

Repeat(r, k) == [i \in 1..k |-> r]

BatchInit ==
    /\ \E r1 \in ProbeReadings, r2 \in ProbeReadings, k \in ProbeSplits :
          sessionReadings = Repeat(r1, k) \o Repeat(r2, BATCH_SIZE - k)
    /\ session = [active |-> TRUE, completed |-> FALSE, startedAt |-> "now"]
    /\ tankLevels = [tankA |-> 0, tankB |-> 0, updatedAt |-> "null"]
    /\ res = [op |-> "ingest", code |-> 200,
              body |-> [status |-> "received", sessionActive |-> TRUE,
                        sessionCount |-> BATCH_SIZE]]
    /\ phase = "COLLECTING"
    /\ lastPrediction = NoPrediction
    /\ pendingCommand = NoCommand
    /\ history = [EmptyLog EXCEPT !.cleared = TRUE]
    /\ inflight = [i \in Slots |-> NoRequest]

BatchNext == AnalyzeWater /\ Sequential

BatchSpec == BatchInit /\ [][BatchNext]_vars

\* C13: the bracket analyze answers with is classify(average turbidity, average
\* tds), so it depends on no pH value: batches with equal average turbidity and
\* tds get the same bracket.
C13_BracketFromTurbidityAndTds ==
    AnalyzeOk =>
        res.body.filtrationBracket =
            filtrationBracket(res.body.average.turbidity, res.body.average.tds)

\* the distance between avg and sum / n is at most one half
IsNearest(avg, sum, n) ==
    /\ 2 * (avg * n - sum) <= n
    /\ 2 * (sum - avg * n) <= n

\* C17: for a full batch with integer tds values the tds of the average analyze
\* answers with is the arithmetic mean of the tds values rounded to the nearest
\* integer, and its pH and turbidity are the means rounded to 2 decimals (to the
\* nearest hundredth).
C17_AverageIsRoundedMean ==
    AnalyzeOk =>
        LET a == res.body.average
            n == Len(sessionReadings)
        IN  /\ n >= BATCH_SIZE
            /\ a.tds \in Int
            /\ IsNearest(a.tds, SumField(sessionReadings, "tds"), n)
            /\ IsNearest(a.ph, SumField(sessionReadings, "ph"), n)
            /\ IsNearest(a.turbidity, SumField(sessionReadings, "turbidity"), n)

\* C17 witness: a batch whose tds mean lies exactly between two integers was
\* averaged to the upper one.
C17_Witness ==
    /\ AnalyzeOk
    /\ 2 * (SumField(sessionReadings, "tds") % Len(sessionReadings))
          = Len(sessionReadings)
    /\ res.body.average.tds * Len(sessionReadings)
          > SumField(sessionReadings, "tds")


\* C14: an ingest call with a well-typed reading that is rejected (the phase is
\* not COLLECTING, or the batch already holds BATCH_SIZE readings) is answered as
\* a success (200) and leaves the batch, the session flags and the phase unchanged.
C14_RejectedIngestIsNoOp ==
    [][\A b \in IngestBodies :
         ( /\ b.ph.type = "number" /\ b.turbidity.type = "number"
           /\ b.tds.type = "number"
           /\ Ingest(b)
           /\ (phase # "COLLECTING" \/ Len(sessionReadings) >= BATCH_SIZE) )
         => /\ res'.code = 200
            /\ UNCHANGED <<sessionReadings, session, phase>>]_vars

\* C15: an ingest call whose ph, turbidity or tds is not of type number is answered
\* with 400 and leaves the batch, the session flags, the phase and the pending
\* command unchanged, whatever the phase.
C15_InvalidIngestRejected ==
    [][\A b \in DispatchIngestBodies :
         ( /\ (b.ph.type # "number" \/ b.turbidity.type # "number"
                  \/ b.tds.type # "number")
           /\ Ingest(b) )
         => /\ res'.op = "ingest"
            /\ res'.code = 400
            /\ UNCHANGED <<sessionReadings, session, phase, pendingCommand>>]_vars

\* C15 witness: a malformed ingest was refused while a pump command was pending in
\* the main transfer, with the analyzed batch still in place.
C15_Witness ==
    /\ res.op = "ingest"
    /\ res.code = 400
    /\ phase = "TRANSFERRING_MAIN"
    /\ pendingCommand.command # "none"
    /\ Len(sessionReadings) = BATCH_SIZE


\* C18: the phase COMPLETE is never reached: in every reachable state the phase
\* is one of IDLE, COLLECTING, ANALYZED, TRANSFERRING_MAIN, POST_FILTRATION.
C18_CompleteUnreachable ==
    phase \in {"IDLE", "COLLECTING", "ANALYZED", "TRANSFERRING_MAIN",
               "POST_FILTRATION"}

\* C18 witness: a pump command that was handed out has been acknowledged, and the
\* phase went back to IDLE with the analyzed session still in place.
C18_Witness ==
    /\ res.op = "pump/ack"
    /\ history.queued \in {"START_PUMP_A", "START_PUMP_B", "START_PUMP_C"}
    /\ history.handedOut >= 1
    /\ session.completed
    /\ phase = "IDLE"

\* C19: the session is never both active and completed: start sets active and
\* clears completed, a successful analyze sets completed and clears active, reset
\* clears both, and no other operation (a refused analyze included) changes
\* either flag.
C19_ActiveXorCompleted ==
    /\ [](~(session.active /\ session.completed))
    /\ [][/\ res'.op = "session/start" =>
                session'.active /\ ~session'.completed
          /\ (res'.op = "analyze-water" /\ res'.code = 200) =>
                session'.completed /\ ~session'.active
          /\ res'.op = "session/reset" =>
                ~session'.active /\ ~session'.completed
          /\ ~( \/ res'.op \in {"session/start", "session/reset"}
                \/ (res'.op = "analyze-water" /\ res'.code = 200) ) =>
                /\ session'.active = session.active
                /\ session'.completed = session.completed]_vars

\* C19 witness: the tank levels were updated after a successful analysis, and the
\* session is still completed and not active.
C19_Witness ==
    /\ res.op = "tank-levels/ingest"
    /\ res.code = 200
    /\ session.completed
    /\ ~session.active
    /\ Len(sessionReadings) >= BATCH_SIZE

\* C20: whenever the session is idle (neither active nor completed) the batch is
\* empty.
C20_IdleBatchEmpty ==
    (~session.active /\ ~session.completed) => sessionReadings = <<>>

\* C20 witness: a well-typed reading arrived after an analyzed session was reset,
\* and the batch is empty.
C20_Witness ==
    /\ Ingested
    /\ history.analyses = 1
    /\ ~session.active
    /\ ~session.completed
    /\ sessionReadings = <<>>


-----------------------------------------------------------------------------
(* Concurrent callers: requests arrive while others wait, and Node's event loop
   runs one handler at a time, each from its start to the point where it gives
   the loop back *)

\* whether the handler of a request gives the event loop back between its test of
\* the session flags and its assignments: no handler of index.ts awaits or
\* registers a callback
HandlerYields_AfterCheck(req) == req.op = "ingest" /\ IngestValid(req.body)

HandlerYields(req) == FALSE

\* a request is received
Arrive(i, req) ==
    /\ inflight[i].pc = "idle"
    /\ inflight' = [inflight EXCEPT
                      ![i] = [NoRequest EXCEPT !.op = req.op, !.body = req.body,
                                               !.pc = "received"]]
    /\ UNCHANGED <<codeVars, res>>
    /\ PhaseUnchanged

\* the route of a request
Handler(req) ==
    CASE req.op = "ingest" -> Ingest(req.body)
      [] req.op = "session/start" -> SessionStart
      [] req.op = "session/reset" -> SessionReset
      [] req.op = "analyze-water" -> AnalyzeWater

\* request i is answered while the others wait
Handled(i) ==
    [j \in Slots |->
        IF j = i THEN NoRequest
        ELSE IF inflight[j].pc = "idle" THEN inflight[j]
        ELSE [inflight[j] EXCEPT !.overtaken = TRUE]]

\* the event loop runs the handler of request i until it gives the loop back
Turn(i) ==
    /\ inflight[i].pc \in {"received", "checked"}
    /\ IF inflight[i].pc = "checked"
       THEN /\ IngestPush(inflight[i].body, inflight[i].stores)
            /\ inflight' = Handled(i)
       ELSE IF HandlerYields(inflight[i])
       THEN /\ inflight' = [inflight EXCEPT ![i].pc = "checked",
                                            ![i].stores = IngestStores]
            /\ UNCHANGED <<codeVars, res>>
            /\ PhaseUnchanged
       ELSE /\ Handler(inflight[i])
            /\ inflight' = Handled(i)

ConcurrentNext ==
    \/ \E i \in Slots, req \in ConcurrentRequests : Arrive(i, req)
    \/ \E i \in Slots : Turn(i)

ConcurrentSpec == Init /\ [][ConcurrentNext]_vars

Answered(i) == inflight[i].pc # "idle" /\ inflight'[i].pc = "idle"

\* C16: every operation is atomic with respect to concurrent callers: under any
\* interleaving of ingest, start, reset and analyze requests each step either
\* answers no request and leaves the shared state alone, or answers exactly one
\* request and is the step the sequential handler of that request takes from
\* the state it finds, so the state is that of the requests in the order they
\* were answered; and the count an ingest answers is the length of the batch
\* after its own append (no lost append, no append past the check).
C16_Linearizable ==
    /\ [][ \/ /\ \A i \in Slots : ~Answered(i)
              /\ UNCHANGED <<codeVars, res, phase, lastPrediction,
                             pendingCommand, history>>
           \/ \E i \in Slots :
                 /\ Answered(i)
                 /\ \A j \in Slots \ {i} : ~Answered(j)
                 /\ Handler(inflight[i]) ]_vars
    /\ [](Ingested => res.body.sessionCount = Len(sessionReadings))

\* C16 witness: an ingest was answered and stored while another ingest, received
\* before that answer, is still waiting, and the batch holds both the readings
\* stored before and the new one.
C16_Witness ==
    /\ Ingested
    /\ session.active
    /\ Len(sessionReadings) >= 2
    /\ \E j \in Slots :
          /\ inflight[j].pc = "received"
          /\ inflight[j].op = "ingest"
          /\ inflight[j].overtaken


-----------------------------------------------------------------------------
(* Properties of the analyzed batch and of the tank levels *)

\* C21: a successful analyze leaves the batch as it was, and so does every
\* request that is answered while the session is completed, except start and
\* reset: an ingest that arrives then is answered with the unchanged count, and
\* status reports the length of the batch as collected.
C21_AnalyzedBatchFrozen ==
    [][/\ (res'.op = "analyze-water" /\ res'.code = 200) =>
             sessionReadings' = sessionReadings
       /\ (session.completed
             /\ res'.op \notin {"session/start", "session/reset"}) =>
             sessionReadings' = sessionReadings
       /\ (session.completed /\ Ingested') =>
             res'.body.sessionCount = Len(sessionReadings)
       /\ res'.op = "session/status" =>
             res'.body.collected = Len(sessionReadings)]_vars

\* C21 witness: a well-typed reading arrived after the analysis and was answered
\* with the count of the analyzed batch, which is still in place.
C21_Witness ==
    /\ Ingested
    /\ session.completed
    /\ ~res.body.sessionActive
    /\ res.body.sessionCount = BATCH_SIZE
    /\ Len(sessionReadings) = BATCH_SIZE

\* C22: the stored tank levels are always within 0..100: a tank-levels call with
\* a value that is not a number or lies outside 0..100 is answered 400 and leaves
\* the stored levels unchanged, and no tank-levels call changes the session flags
\* or the batch.
C22_TankLevelsInRange ==
    /\ [](tankLevels.tankA \in 0..100 /\ tankLevels.tankB \in 0..100)
    /\ [][\A b \in TankBodies :
            TankLevelsIngest(b) =>
               /\ UNCHANGED <<sessionReadings, session>>
               /\ ( \/ b.tankA.type # "number"
                    \/ b.tankB.type # "number"
                    \/ b.tankA.val \notin 0..100
                    \/ b.tankB.val \notin 0..100 ) =>
                      /\ res'.code = 400
                      /\ UNCHANGED tankLevels]_vars

\* C22 witness: a tank-levels call was refused while a session was collecting,
\* after an earlier call had stored a level at the upper limit.
C22_Witness ==
    /\ res.op = "tank-levels/ingest"
    /\ res.code = 400
    /\ tankLevels.tankA = 100
    /\ tankLevels.updatedAt = "now"
    /\ session.active
    /\ Len(sessionReadings) >= 1

=============================================================================
